---- MODULE Spec2Model ----
(***************************************************************************)
(* A model of the Bidirectional Associative Memory of bam.py.             *)
(*                                                                         *)
(* Python lists are modelled as TLA+ sequences, so the Python index i     *)
(* (from 0) is the index i + 1 here.  A vector is a sequence of integers, *)
(* an association pair is <<a, b>> (pair[0] = a, pair[1] = b), the        *)
(* training set is a sequence of pairs, the matrix is a sequence of rows. *)
(*                                                                         *)
(* The constructor is modelled in steps: the body of __init__ up to the   *)
(* allocation of the zero matrix, then one step per iteration of the      *)
(* outermost loop of _create_bam_matrix (one association pair).  An       *)
(* exception (Python's IndexError) ends the call: pc = "error" for the    *)
(* constructor, outcome = "error" for a recall.  op, arg, assoc, returned  *)
(* and outcome record the last call, its argument and what it returned.   *)
(***************************************************************************)
EXTENDS Integers, Sequences, FiniteSets

VARIABLES data, AB, len_x, len_y, M, k, pc, op, arg, assoc, returned, outcome

vars == <<data, AB, len_x, len_y, M, k, pc, op, arg, assoc, returned, outcome>>

(***************************************************************************)
(* Bounds of the model.                                                    *)
(***************************************************************************)
\* Longest vector of a generated training set.
MaxLen == 2
\* Most vector entries (over all pairs) of a well-formed training set.
MaxBits == 8
\* Most vector entries (over all pairs) of an unvalidated training set.
MaxBadBits == 5

(***************************************************************************)
(* Inputs.                                                                 *)
(***************************************************************************)
Binary == {0, 1}
\* What a caller may put in a vector: the code validates nothing.
RawValues == {0, 1, 2}

BinVecs(n) == [1..n -> Binary]
RawVecs(n) == [1..n -> RawValues]

\* The sample data of the script's entry point.
data_pairs ==
    << << <<1, 0, 1, 0, 1, 0>>, <<1, 1, 0, 0>> >>,
       << <<1, 1, 1, 0, 0, 0>>, <<1, 0, 1, 0>> >> >>

test_inputs == << <<1, 0, 1, 0, 1, 0>>, <<1, 1, 1, 0, 0, 0>> >>

\* Non-empty lists of binary pairs of one shape (ly, lx).
WellFormedShapes ==
    {s \in (1..MaxBits) \X (1..MaxLen) \X (1..MaxLen) :
        s[1] * (s[2] + s[3]) <= MaxBits}

WellFormedInputs ==
    UNION {[1..s[1] -> BinVecs(s[2]) \X BinVecs(s[3])] : s \in WellFormedShapes}

\* The lengths (la, lb) of a pair with at most b entries.
PairLens(b) ==
    {t \in (1..MaxLen) \X (1..MaxLen) : t[1] + t[2] <= b}

\* Any list of pairs of non-empty raw vectors with at most b entries in all:
\* the empty list, pairs of differing lengths, entries outside {0,1}.
RECURSIVE PairLists(_)
PairLists(b) ==
    {<< >>} \cup
    UNION {{<<p>> \o r : p \in RawVecs(s[1]) \X RawVecs(s[2]),
                         r \in PairLists(b - s[1] - s[2])} :
           s \in PairLens(b)}

Inputs == WellFormedInputs \cup PairLists(MaxBadBits) \cup {data_pairs}

\* The argument of a recall on an engine with ly rows: the binary vectors of
\* length ly, and malformed ones (one entry short, one entry long, an entry
\* outside {0,1}).
Queries(ly) ==
    BinVecs(ly)
    \cup (IF ly > 0 THEN BinVecs(ly - 1) ELSE {})
    \cup {Append(v, 1) : v \in BinVecs(ly)}
    \cup (IF ly > 0 THEN {[v EXCEPT ![1] = 2] : v \in BinVecs(ly)} ELSE {})

(***************************************************************************)
(* The pure helpers.                                                       *)
(***************************************************************************)
\* _to_bipolar with the two cases exchanged: [-1 if val == 1 else 1 ...].
to_bipolar_swapped(vec) == [i \in 1..Len(vec) |-> IF vec[i] = 1 THEN -1 ELSE 1]

\* _to_bipolar that leaves the vector binary: [1 if val == 1 else 0 ...].
to_bipolar_binary(vec) == [i \in 1..Len(vec) |-> IF vec[i] = 1 THEN 1 ELSE 0]

\* _to_bipolar: [1 if val == 1 else -1 for val in vec]
to_bipolar(vec) == [i \in 1..Len(vec) |-> IF vec[i] = 1 THEN 1 ELSE -1]

\* _threshold with a strict comparison: [1 if val > 0 else 0 ...].
threshold_strict(vec) == [i \in 1..Len(vec) |-> IF vec[i] > 0 THEN 1 ELSE 0]

\* _threshold: [1 if val >= 0 else 0 for val in vec]
threshold(vec) == [i \in 1..Len(vec) |-> IF vec[i] >= 0 THEN 1 ELSE 0]

\* [[0] * len_x for _ in range(len_y)]
ZeroMatrix(ly, lx) == [i \in 1..ly |-> [j \in 1..lx |-> 0]]

\* The iteration of the loops of _create_bam_matrix over one pair raises
\* IndexError at the first M[i][j] outside the matrix.
Fits(mat, lx, x_vec, y_vec) ==
    \/ Len(x_vec) = 0
    \/ Len(y_vec) = 0
    \/ Len(x_vec) <= Len(mat) /\ Len(y_vec) <= lx

\* Whether the entry (i, j) is updated by the iteration over one pair: all
\* entries of the pair's shape when it fits, else the ones before the fault.
Visited(mat, lx, x_vec, y_vec, i, j) ==
    /\ i <= Len(x_vec)
    /\ j <= Len(y_vec)
    /\ IF Len(y_vec) > lx THEN i = 1 ELSE TRUE

\* The sum over i in range(n) of vec[i] * M[i][j].
RECURSIVE WeightedSum(_, _, _, _)
WeightedSum(mat, vec, j, n) ==
    IF n = 0 THEN 0 ELSE WeightedSum(mat, vec, j, n - 1) + vec[n] * mat[n][j]

\* The iteration with an assignment for the sum: M[i][j] = x_val * y_val.
Accumulate_assign(mat, lx, x_vec, y_vec) ==
    [i \in 1..Len(mat) |->
        [j \in 1..lx |->
            IF Visited(mat, lx, x_vec, y_vec, i, j)
            THEN x_vec[i] * y_vec[j]
            ELSE mat[i][j]]]

\* The iteration over a matrix whose rows are one list ([[0] * len_x] * len_y):
\* every row receives the updates of all rows.
Accumulate_shared_rows(mat, lx, x_vec, y_vec) ==
    [r \in 1..Len(mat) |->
        [j \in 1..lx |->
            IF j <= Len(y_vec) /\ Len(x_vec) <= Len(mat)
            THEN mat[r][j] + WeightedSum([i \in 1..Len(x_vec) |-> y_vec],
                                         x_vec, j, Len(x_vec))
            ELSE mat[r][j]]]

\* The iteration with a weight that depends on what is stored already:
\* M[i][j] = 2 * M[i][j] + x_val * y_val.
Accumulate_doubling(mat, lx, x_vec, y_vec) ==
    [i \in 1..Len(mat) |->
        [j \in 1..lx |->
            IF Visited(mat, lx, x_vec, y_vec, i, j)
            THEN 2 * mat[i][j] + x_vec[i] * y_vec[j]
            ELSE mat[i][j]]]

\* One iteration of `for x_vec, y_vec in self.AB`: M[i][j] += x_val * y_val.
Accumulate(mat, lx, x_vec, y_vec) ==
    [i \in 1..Len(mat) |->
        [j \in 1..lx |->
            IF Visited(mat, lx, x_vec, y_vec, i, j)
            THEN mat[i][j] + x_vec[i] * y_vec[j]
            ELSE mat[i][j]]]

\* _mult_mat_vec over the bipolar encoding of the query.
mult_mat_vec_bipolar(mat, ly, lx, vec) ==
    [j \in 1..lx |-> WeightedSum(mat, to_bipolar(vec), j, ly)]

\* _mult_mat_vec that stops one row early: for i in range(self.len_y - 1).
mult_mat_vec_short(mat, ly, lx, vec) ==
    [j \in 1..lx |-> WeightedSum(mat, vec, j, IF ly > 0 THEN ly - 1 ELSE 0)]

\* _mult_mat_vec
mult_mat_vec(mat, ly, lx, vec) == [j \in 1..lx |-> WeightedSum(mat, vec, j, ly)]

\* _mult_mat_vec raises IndexError at vec[i] when vec is shorter than len_y.
MultFaults(ly, lx, vec) == lx > 0 /\ Len(vec) < ly

(***************************************************************************)
(* The state machine.                                                      *)
(***************************************************************************)
Init ==
    /\ data \in Inputs
    /\ AB = << >>
    /\ len_x = 0
    /\ len_y = 0
    /\ M = << >>
    /\ k = 0
    /\ pc = "uninitialized"
    /\ op = "none"
    /\ arg = << >>
    /\ assoc = << >>
    /\ returned = << >>
    /\ outcome = "none"

\* BAM.__init__ up to the call of _create_bam_matrix.
Construct ==
    /\ pc = "uninitialized"
    /\ op' = "Construct"
    /\ AB' = [p \in 1..Len(data) |->
                <<to_bipolar(data[p][1]), to_bipolar(data[p][2])>>]
    /\ IF Len(data) = 0
       THEN /\ pc' = "error"
            /\ outcome' = "error"
            /\ UNCHANGED <<len_x, len_y, M>>
       ELSE /\ len_x' = Len(AB'[1][2])
            /\ len_y' = Len(AB'[1][1])
            /\ M' = ZeroMatrix(len_y', len_x')
            /\ pc' = "building"
            /\ UNCHANGED outcome
    /\ UNCHANGED <<data, k, arg, assoc, returned>>

\* BAM._create_bam_matrix, one association pair; the last one ends __init__.
create_bam_matrix ==
    /\ pc = "building"
    /\ k < Len(AB)
    /\ LET x_vec == AB[k + 1][1]
           y_vec == AB[k + 1][2]
       IN /\ M' = Accumulate(M, len_x, x_vec, y_vec)
          /\ IF Fits(M, len_x, x_vec, y_vec)
             THEN /\ k' = k + 1
                  /\ pc' = IF k' = Len(AB) THEN "ready" ELSE "building"
                  /\ outcome' = IF k' = Len(AB) THEN "ok" ELSE outcome
             ELSE /\ pc' = "error"
                  /\ outcome' = "error"
                  /\ UNCHANGED k
    /\ UNCHANGED <<data, AB, len_x, len_y, op, arg, assoc, returned>>

\* A recall whose _mult_mat_vec accumulates into row 0 of the matrix instead
\* of a fresh list (v_res = self.M[0]).
get_association_aliased ==
    /\ pc = "ready"
    /\ \E A \in Queries(len_y) :
        /\ op' = "get_association"
        /\ arg' = A
        /\ IF MultFaults(len_y, len_x, A)
           THEN /\ outcome' = "error"
                /\ assoc' = << >>
                /\ M' = M
           ELSE /\ outcome' = "ok"
                /\ assoc' = threshold(mult_mat_vec(M, len_y, len_x, A))
                /\ M' = [M EXCEPT ![1] = mult_mat_vec(M, len_y, len_x, A)]
    /\ UNCHANGED <<data, AB, len_x, len_y, k, pc, returned>>

\* BAM.get_association: threshold(_mult_mat_vec(A)); self.M is only read.
get_association ==
    /\ pc = "ready"
    /\ \E A \in Queries(len_y) :
        /\ op' = "get_association"
        /\ arg' = A
        /\ IF MultFaults(len_y, len_x, A)
           THEN /\ outcome' = "error"
                /\ assoc' = << >>
           ELSE /\ outcome' = "ok"
                /\ assoc' = threshold(mult_mat_vec(M, len_y, len_x, A))
    /\ UNCHANGED <<data, AB, len_x, len_y, M, k, pc, returned>>

\* BAM.get_bam_matrix: return self.M
get_bam_matrix ==
    /\ pc = "ready"
    /\ op' = "get_bam_matrix"
    /\ outcome' = "ok"
    /\ returned' = M
    /\ UNCHANGED <<data, AB, len_x, len_y, M, k, pc, arg, assoc>>

Next ==
    \/ Construct
    \/ create_bam_matrix
    \/ get_association
    \/ get_bam_matrix

Spec == Init /\ [][Next]_vars

(***************************************************************************)
(* Vocabulary of the properties.                                           *)
(***************************************************************************)
IsBinaryVec(v) == \A i \in 1..Len(v) : v[i] \in Binary

BinaryData(d) ==
    \A p \in 1..Len(d) : IsBinaryVec(d[p][1]) /\ IsBinaryVec(d[p][2])

\* A non-empty list whose pairs all have the lengths of the first pair.
ConsistentLengths(d) ==
    /\ Len(d) > 0
    /\ \A p \in 1..Len(d) :
        Len(d[p][1]) = Len(d[1][1]) /\ Len(d[p][2]) = Len(d[1][2])

WellFormed(d) == ConsistentLengths(d) /\ BinaryData(d)

\* The bipolar value of a binary value: 0 -> -1, 1 -> +1.
Bipolar(b) == 2 * b - 1

\* The sum of f[1], ..., f[n].
RECURSIVE Sigma(_, _)
Sigma(f, n) == IF n = 0 THEN 0 ELSE f[n] + Sigma(f, n - 1)

\* The sum over the pairs of d of bipolar(a)[i] * bipolar(b)[j].
Hebbian(d, i, j) ==
    Sigma([p \in 1..Len(d) |-> Bipolar(d[p][1][i]) * Bipolar(d[p][2][j])], Len(d))

\* The sum over the rows of query[i] * M[i][j].
ColumnSum(q, j) == Sigma([i \in 1..len_y |-> q[i] * M[i][j]], len_y)

Zeros(n) == [i \in 1..n |-> 0]
Ones(n) == [i \in 1..n |-> 1]
HasOne(v) == \E i \in 1..Len(v) : v[i] = 1

\* The permutations of 1..n.
Perms(n) == {f \in [1..n -> 1..n] : \A i, j \in 1..n : f[i] = f[j] => i = j}

\* The matrix _create_bam_matrix builds from the first n pairs of the list d,
\* whose shape is that of its first pair.
RECURSIVE MatrixOf(_, _)
MatrixOf(d, n) ==
    IF n = 0
    THEN ZeroMatrix(Len(d[1][1]), Len(d[1][2]))
    ELSE Accumulate(MatrixOf(d, n - 1), Len(d[1][2]),
                    to_bipolar(d[n][1]), to_bipolar(d[n][2]))

\* A recall that returned normally on a binary query of the engine's length.
RecalledBinary ==
    /\ pc = "ready"
    /\ op = "get_association"
    /\ IsBinaryVec(arg)
    /\ Len(arg) = len_y

(***************************************************************************)
(* The properties.                                                         *)
(***************************************************************************)

\* C1: after the construction from a non-empty list of binary pairs of
\* consistent lengths (Ly, Lx), the matrix has Ly rows of Lx columns and
\* M[i][j] is the sum over the pairs of bipolar(a)[i] * bipolar(b)[j]; for a
\* single pair it is the outer product of the two bipolar vectors.
C1_HebbianMatrix ==
    (pc = "ready" /\ WellFormed(data)) =>
        /\ Len(M) = Len(data[1][1])
        /\ \A i \in 1..Len(M) :
            /\ Len(M[i]) = Len(data[1][2])
            /\ \A j \in 1..Len(M[i]) : M[i][j] = Hebbian(data, i, j)
        /\ Len(data) = 1 =>
            \A i \in 1..Len(M) : \A j \in 1..Len(M[i]) :
                M[i][j] = Bipolar(data[1][1][i]) * Bipolar(data[1][2][j])

C1_Witness ==
    /\ pc = "ready"
    /\ WellFormed(data)
    /\ Len(data) = 2
    /\ Len(M) = 2
    /\ Len(M[1]) = 2
    /\ M[1][1] = 2
    /\ M[2][1] = 0
    /\ M[2][2] = -2

\* C2: a recall on a binary query of length Ly returns a vector of length Lx
\* with entries in {0,1}, and output[j] = 1 exactly when the sum over i of
\* query[i] * M[i][j], with the raw binary query values, is >= 0.
C2_RecallThreshold ==
    RecalledBinary =>
        /\ outcome = "ok"
        /\ Len(assoc) = len_x
        /\ \A j \in 1..len_x :
            /\ assoc[j] \in {0, 1}
            /\ assoc[j] = 1 <=> ColumnSum(arg, j) >= 0

C2_Witness ==
    /\ RecalledBinary
    /\ len_x = 2
    /\ HasOne(arg)
    /\ ColumnSum(arg, 1) < 0
    /\ ColumnSum(arg, 2) = 0
    /\ assoc = <<0, 1>>

\* C3: once the engine is ready, no call writes the matrix, and get_bam_matrix
\* returns it as it is.
C3_MatrixFrozen ==
    [][pc = "ready" =>
        /\ pc' = "ready"
        /\ M' = M
        /\ op' = "get_bam_matrix" => returned' = M]_vars

C3_Witness ==
    /\ pc = "ready"
    /\ op = "get_bam_matrix"
    /\ assoc # << >>
    /\ HasOne(arg)
    /\ returned = M
    /\ \E i \in 1..Len(M) : \E j \in 1..Len(M[i]) : M[i][j] # 0

\* C4 as stated: for an engine built from one binary pair (x, y), the recall
\* of x returns y, for every binary x and y.
C4_SinglePairRecall ==
    (RecalledBinary /\ Len(data) = 1 /\ BinaryData(data) /\ arg = data[1][1]) =>
        assoc = data[1][2]

\* C4 as amended: for an engine built from one binary pair (x, y), the recall
\* of x returns y when x has at least one 1; when x is all zeros it returns
\* the all-ones vector.
C4_SinglePairRecallAmended ==
    (RecalledBinary /\ Len(data) = 1 /\ BinaryData(data) /\ arg = data[1][1]) =>
        /\ outcome = "ok"
        /\ HasOne(arg) => assoc = data[1][2]
        /\ ~HasOne(arg) => assoc = Ones(len_x)

C4_Witness ==
    /\ RecalledBinary
    /\ Len(data) = 1
    /\ BinaryData(data)
    /\ arg = data[1][1]
    /\ arg = <<0, 1>>
    /\ data[1][2] = <<1, 0>>
    /\ assoc = <<1, 0>>

\* C5: whatever the training set, the recall of the all-zero query of length
\* Ly returns the all-ones vector of length Lx.
C5_ZeroQueryAllOnes ==
    (pc = "ready" /\ op = "get_association" /\ arg = Zeros(len_y)) =>
        /\ outcome = "ok"
        /\ assoc = Ones(len_x)

C5_Witness ==
    /\ pc = "ready"
    /\ op = "get_association"
    /\ arg = Zeros(len_y)
    /\ len_y = 2
    /\ Len(data) = 2
    /\ M = << <<2>>, <<-2>> >>
    /\ assoc = <<1>>

\* C6: for the sample pairs of the entry point the matrix is the sum of the
\* two bipolar outer products, and whenever [1,0,1,0,1,0] is recalled the
\* result is [1,1,0,0], whenever [1,1,1,0,0,0] is recalled it is [1,0,1,0].
C6_SampleRecall ==
    (pc = "ready" /\ data = data_pairs) =>
        /\ M = << <<2, 0, 0, -2>>, <<0, -2, 2, 0>>, <<2, 0, 0, -2>>,
                  <<-2, 0, 0, 2>>, <<0, 2, -2, 0>>, <<-2, 0, 0, 2>> >>
        /\ \A i \in 1..6 : \A j \in 1..4 : M[i][j] = Hebbian(data_pairs, i, j)
        /\ (op = "get_association" /\ arg = test_inputs[1]) =>
            assoc = <<1, 1, 0, 0>>
        /\ (op = "get_association" /\ arg = test_inputs[2]) =>
            assoc = <<1, 0, 1, 0>>

C6_Witness ==
    /\ pc = "ready"
    /\ data = data_pairs
    /\ op = "get_association"
    /\ arg = test_inputs[2]
    /\ assoc = <<1, 0, 1, 0>>
    /\ returned = M

\* C7: a construction from a malformed training set (empty, lengths that
\* differ from the first pair's, an entry outside {0,1}) never completes, and
\* a recall on a malformed query (a length other than Ly, an entry outside
\* {0,1}) ends in an error.
C7_MalformedInputFails ==
    /\ (pc = "ready") => WellFormed(data)
    /\ (pc = "ready" /\ op = "get_association"
            /\ (Len(arg) # len_y \/ ~IsBinaryVec(arg))) =>
        outcome = "error"

\* C8: thresholding the bipolar encoding of a binary vector gives the vector
\* back; the encoding maps 0 to -1 and 1 to +1, an all-zero vector to all -1.
C8_BipolarRoundTrip ==
    \A p \in 1..Len(AB) : \A s \in {1, 2} :
        IsBinaryVec(data[p][s]) =>
            /\ threshold(AB[p][s]) = data[p][s]
            /\ Len(AB[p][s]) = Len(data[p][s])
            /\ \A i \in 1..Len(AB[p][s]) : AB[p][s][i] = Bipolar(data[p][s][i])
            /\ data[p][s] = Zeros(Len(data[p][s])) =>
                AB[p][s] = [i \in 1..Len(data[p][s]) |-> -1]

C8_Witness ==
    /\ Len(AB) = 2
    /\ data[1][1] = <<0, 0>>
    /\ AB[1][1] = <<-1, -1>>
    /\ data[2][1] = <<1, 0>>
    /\ AB[2][1] = <<1, -1>>
    /\ threshold(AB[2][1]) = <<1, 0>>

\* C9: the matrix of an engine built from pairs of consistent lengths is the
\* matrix the construction builds from any permutation of the pairs.
C9_OrderIndependent ==
    (pc = "ready" /\ ConsistentLengths(data)) =>
        \A f \in Perms(Len(data)) :
            MatrixOf([p \in 1..Len(data) |-> data[f[p]]], Len(data)) = M

C9_Witness ==
    /\ pc = "ready"
    /\ ConsistentLengths(data)
    /\ Len(data) = 3
    /\ data[1] # data[2]
    /\ data[2] # data[3]
    /\ data[1] # data[3]

\* C10: while and after the matrix is built from pairs of consistent lengths,
\* with k pairs accumulated every entry is one of -k, -k + 2, ..., k; once
\* the engine is ready k is the number of pairs.
C10_EntryRange ==
    (pc \in {"building", "ready"} /\ ConsistentLengths(data)) =>
        /\ pc = "ready" => k = Len(data)
        /\ \A i \in 1..Len(M) : \A j \in 1..Len(M[i]) :
            /\ -k <= M[i][j]
            /\ M[i][j] <= k
            /\ (M[i][j] + k) % 2 = 0

C10_Witness ==
    /\ pc = "building"
    /\ ConsistentLengths(data)
    /\ Len(data) = 3
    /\ k = 2
    /\ M = << <<0>> >>

====
